---- MODULE Spec2Model ----
(***************************************************************************)
(* Invoice Status API (FastAPI service): the status classifier of          *)
(* utils.py and the /invoice/status handler of routers/invoice.py.         *)
(*                                                                         *)
(* Text is a sequence of one-character strings, so that strip(), lower()   *)
(* and strptime() are computed character by character.  A JSON value of a  *)
(* ledger row is a tagged record: null, a number or a string.  A datetime  *)
(* is a number of clock ticks since 0001-01-01 minus one day, TicksPerDay  *)
(* ticks to the day (tick 0 of a day is midnight).  Amounts are integral.  *)
(***************************************************************************)
EXTENDS Integers, Sequences, FiniteSets, TLC

VARIABLES
    request_data,    \* the request body: account, inv, start_date, end_date, format
    upstream,        \* the rows the upstream data source holds
    now,             \* the wall clock, in ticks
    pc,              \* where the handler is: validate, fetch, process, done
    inv,             \* clean_param(request_data.inv)
    start_dt,        \* parsed start_date, or NoDate
    end_dt,          \* parsed end_date, or NoDate
    financial_data,  \* response.json() of the upstream fetch
    fetches,         \* GET requests sent to the upstream data source
    response,        \* what the caller receives
    reads            \* the clock readings of the get_remark_and_status calls, in call order

vars == <<request_data, upstream, now, pc, inv, start_dt, end_dt,
          financial_data, fetches, response, reads>>

---------------------------------------------------------------------------
(* Bounds of the model *)

\* clock ticks per day: tick 0 is midnight, the others are later the same day
TicksPerDay == 2
\* the longest ledger the upstream data source holds
MaxRows == 3
\* the oldest BP clearing date tried by the classifier runs, in days before Today
MaxAgeDays == 6

---------------------------------------------------------------------------
(* Python values *)

\* src/utils.py:43  timedelta(days=4)
PaidWindowDays == 4

None == [t |-> "null", n |-> 0, s |-> <<>>]
Num(n) == [t |-> "num", n |-> n, s |-> <<>>]
Str(s) == [t |-> "str", n |-> 0, s |-> s]

Digits == <<"0", "1", "2", "3", "4", "5", "6", "7", "8", "9">>
UpperCase == <<"A", "B", "C", "D", "E", "F", "G", "H", "I", "J", "K", "L", "M",
               "N", "O", "P", "Q", "R", "S", "T", "U", "V", "W", "X", "Y", "Z">>
LowerCase == <<"a", "b", "c", "d", "e", "f", "g", "h", "i", "j", "k", "l", "m",
               "n", "o", "p", "q", "r", "s", "t", "u", "v", "w", "x", "y", "z">>
Whitespace == {" ", "\t", "\n"}

IsDigit(c) == \E i \in 1..10 : Digits[i] = c
DigitVal(c) == (CHOOSE i \in 1..10 : Digits[i] = c) - 1

\* str.strip(): whitespace removed from both ends
RECURSIVE lstrip(_)
lstrip(s) == IF s # <<>> /\ Head(s) \in Whitespace THEN lstrip(Tail(s)) ELSE s
RECURSIVE rstrip(_)
rstrip(s) ==
    IF s # <<>> /\ s[Len(s)] \in Whitespace THEN rstrip(SubSeq(s, 1, Len(s) - 1)) ELSE s
strip(s) == rstrip(lstrip(s))

\* str.lower()
lower(s) ==
    [i \in 1..Len(s) |->
        IF \E k \in 1..26 : UpperCase[k] = s[i]
        THEN LowerCase[CHOOSE k \in 1..26 : UpperCase[k] = s[i]]
        ELSE s[i]]

\* str(n) of an integer
RECURSIVE NatStr(_)
NatStr(n) == IF n < 10 THEN <<Digits[n + 1]>> ELSE NatStr(n \div 10) \o <<Digits[(n % 10) + 1]>>
IntStr(n) == IF n < 0 THEN <<"-">> \o NatStr(0 - n) ELSE NatStr(n)

\* str(value)
PyStr(v) ==
    CASE v.t = "str" -> v.s
      [] v.t = "num" -> IntStr(v.n)
      [] OTHER -> <<"N", "o", "n", "e">>

\* bool(value): None, 0 and "" are false
Truthy(v) ==
    CASE v.t = "str" -> v.s # <<>>
      [] v.t = "num" -> v.n # 0
      [] OTHER -> FALSE

\* dict.get(key): None for a missing key
Get(row, key) == IF key \in DOMAIN row THEN row[key] ELSE None

\* normalize that forgets to strip
normalize_unstripped(value) == IF value = None THEN <<>> ELSE PyStr(value)

normalize(value) == IF value = None THEN <<>> ELSE strip(PyStr(value))

---------------------------------------------------------------------------
(* datetime *)

IsLeap(y) == (y % 4 = 0) /\ ((y % 100 # 0) \/ (y % 400 = 0))
DaysInMonth(y, m) ==
    CASE m = 2 -> IF IsLeap(y) THEN 29 ELSE 28
      [] m \in {4, 6, 9, 11} -> 30
      [] OTHER -> 31
RECURSIVE DaysBeforeMonth(_, _)
DaysBeforeMonth(y, m) == IF m = 1 THEN 0 ELSE DaysBeforeMonth(y, m - 1) + DaysInMonth(y, m - 1)
\* date.toordinal(): 0001-01-01 is day 1
ToOrdinal(y, m, d) ==
    (y - 1) * 365 + ((y - 1) \div 4) - ((y - 1) \div 100) + ((y - 1) \div 400)
        + DaysBeforeMonth(y, m) + d

Raised(e) == [ok |-> FALSE, dt |-> 0, exc |-> e]
Returned(dt) == [ok |-> TRUE, dt |-> dt, exc |-> ""]

\* the characters the month directive %m takes at position p: 1[0-2]|0[1-9]|[1-9]
MonthLen(s, p) ==
    IF p > Len(s) THEN 0
    ELSE IF p < Len(s) /\ s[p] = "1" /\ s[p + 1] \in {"0", "1", "2"} THEN 2
    ELSE IF p < Len(s) /\ s[p] = "0" /\ IsDigit(s[p + 1]) /\ s[p + 1] # "0" THEN 2
    ELSE IF IsDigit(s[p]) /\ s[p] # "0" THEN 1
    ELSE 0
\* the characters the day directive %d takes at position p: 3[0-1]|[1-2]\d|0[1-9]|[1-9]| [1-9]
DayLen(s, p) ==
    IF p > Len(s) THEN 0
    ELSE IF p < Len(s) /\ s[p] = "3" /\ s[p + 1] \in {"0", "1"} THEN 2
    ELSE IF p < Len(s) /\ s[p] \in {"1", "2"} /\ IsDigit(s[p + 1]) THEN 2
    ELSE IF p < Len(s) /\ s[p] = "0" /\ IsDigit(s[p + 1]) /\ s[p + 1] # "0" THEN 2
    ELSE IF IsDigit(s[p]) /\ s[p] # "0" THEN 1
    ELSE IF p < Len(s) /\ s[p] = " " /\ IsDigit(s[p + 1]) /\ s[p + 1] # "0" THEN 2
    ELSE 0
\* int() of the digits of s from p, n characters, a leading blank skipped
RECURSIVE DigitsVal(_, _, _)
DigitsVal(s, p, n) ==
    IF n = 0 THEN 0
    ELSE IF s[p + n - 1] = " " THEN 0
    ELSE DigitsVal(s, p, n - 1) * 10 + DigitVal(s[p + n - 1])

\* datetime.strptime(value, "%Y-%m-%d"): midnight of the day, ValueError for text
\* that is no such date, TypeError for a value that is no str
strptime(v) ==
    IF v.t # "str" THEN Raised("TypeError")
    ELSE LET s == v.s
             ml == MonthLen(s, 6)
             dl == DayLen(s, 7 + ml)
         IN  IF \/ Len(s) < 5
                \/ \E i \in 1..4 : ~IsDigit(s[i])
                \/ s[5] # "-"
                \/ ml = 0
                \/ Len(s) < 6 + ml
                \/ s[6 + ml] # "-"
                \/ dl = 0
             THEN Raised("ValueError")     \* does not match format
             ELSE IF 6 + ml + dl # Len(s)
             THEN Raised("ValueError")     \* unconverted data remains
             ELSE LET y == DigitsVal(s, 1, 4)
                      m == DigitsVal(s, 6, ml)
                      d == DigitsVal(s, 7 + ml, dl)
                  IN  IF y < 1 \/ d > DaysInMonth(y, m)
                      THEN Raised("ValueError")     \* out of range
                      ELSE Returned(ToOrdinal(y, m, d) * TicksPerDay)

\* parse_date that lets text that is no date through as the earliest date
parse_date_lenient(date_str) ==
    LET r == strptime(date_str)
    IN  IF ~r.ok /\ r.exc = "ValueError" THEN Returned(0) ELSE r

\* utils.parse_date: a ValueError becomes HTTPException(400); anything else propagates
parse_date(date_str) ==
    LET r == strptime(date_str)
    IN  IF ~r.ok /\ r.exc = "ValueError" THEN Raised("HTTPException") ELSE r

---------------------------------------------------------------------------
(* Status classifier *)

Remark(text, ref_key, bp) == [text |-> text, ref_key |-> ref_key, bp |-> bp]
Classification(remark, status) == [remark |-> remark, status |-> status]

UnderProcess == "Invoice under process"
Booked == "Invoice {ref_key} has been processed and booked for payment."
SentToAP == "Invoice {ref_key} has been processed and sent to AP for payment."
PaidSoon == "Payment for invoice {ref_key} has been processed on {bp_clearing_date_str}. It will be reflected in your bank account within 2 working days."
PaidOn == "Payment for invoice {ref_key} has been processed on {bp_clearing_date_str}."
NoRule == "Invoice {ref_key} found, but does not match defined status rules."

\* the window test with < for <=
WithinWindowStrict(today, paid_date) == today - paid_date < PaidWindowDays * TicksPerDay

\* today - paid_date <= timedelta(days=4)
WithinWindow(today, paid_date) == today - paid_date <= PaidWindowDays * TicksPerDay

\* utils.get_remark_and_status, with datetime.today() passed in as today
get_remark_and_status(invoice, today) ==
    LET ref_key == normalize(Get(invoice, "Reference key 3"))
        clearing_doc == normalize(Get(invoice, "Clearing Document"))
        vendor_clearing_doc_no == normalize(Get(invoice, "Vendor Clearing document no"))
        bp_clearing_date_str == normalize(Get(invoice, "BP clearing Date"))
        clearing_date == normalize(Get(invoice, "Clearing Date"))
    IN  IF ref_key = <<>>
        THEN Classification(Remark(UnderProcess, <<>>, <<>>), "Due")
        ELSE IF /\ clearing_doc = <<>> /\ vendor_clearing_doc_no = <<>>
                /\ bp_clearing_date_str = <<>> /\ clearing_date = <<>>
        THEN Classification(Remark(Booked, ref_key, <<>>), "Due")
        ELSE IF /\ clearing_doc # <<>> /\ clearing_date # <<>>
                /\ vendor_clearing_doc_no = <<>> /\ bp_clearing_date_str = <<>>
        THEN Classification(Remark(SentToAP, ref_key, <<>>), "Due")
        ELSE IF /\ clearing_doc # <<>> /\ clearing_date # <<>>
                /\ vendor_clearing_doc_no # <<>> /\ bp_clearing_date_str # <<>>
        THEN LET paid_date == parse_date(Str(bp_clearing_date_str))
             IN  IF ~paid_date.ok
                 THEN Classification(Remark(PaidOn, ref_key, bp_clearing_date_str), "Paid")
                 ELSE IF WithinWindow(today, paid_date.dt)
                 THEN Classification(Remark(PaidSoon, ref_key, bp_clearing_date_str), "Paid")
                 ELSE Classification(Remark(PaidOn, ref_key, bp_clearing_date_str), "Paid")
        ELSE Classification(Remark(NoRule, ref_key, <<>>), "Due")

---------------------------------------------------------------------------
(* Request handling: routers/invoice.py, invoice_status *)

IL == <<"I", "L">>
SP == <<"S", "P">>

\* value or default
Or(v, default) == IF Truthy(v) THEN v ELSE default

\* clean_param: None, and text that is "none", "null" or blank, are absent
clean_param(param) ==
    IF param = None \/ lower(strip(PyStr(param))) \in {<<"n", "o", "n", "e">>, <<"n", "u", "l", "l">>, <<>>}
    THEN None
    ELSE Str(strip(PyStr(param)))

NoDate == [some |-> FALSE, dt |-> 0]
Date(dt) == [some |-> TRUE, dt |-> dt]

JSON == "application/json"
TEXT == "text/plain"
HTTPError(code, detail) == [status_code |-> code, media |-> JSON, body |-> [detail |-> detail]]
InvalidDate(date_str) == HTTPError(400, [text |-> "Invalid date format: {date_str}. Use YYYY-MM-DD.", date_str |-> date_str])
StartAfterEnd == HTTPError(400, [text |-> "start_date cannot be after end_date.", date_str |-> <<>>])
Unavailable == HTTPError(503, [text |-> "Failed to connect to data API: {e}", date_str |-> <<>>])
\* an exception no handler catches: the framework answers 500
InternalError == HTTPError(500, [text |-> "Internal Server Error", date_str |-> <<>>])
UnderProcessReply(media, i) ==
    [status_code |-> 200, media |-> media,
     body |-> [content |-> [text |-> "Invoice {inv} is under process", inv |-> i]]]
Records(media, invoices_out, summary) ==
    [status_code |-> 200, media |-> media, body |-> [invoices |-> invoices_out, summary |-> summary]]

\* lines 41-53: the parameters are cleaned and the dates parsed and compared,
\* before anything is fetched
Validate ==
    /\ pc = "validate"
    /\ LET start_date == clean_param(request_data.start_date)
           end_date == clean_param(request_data.end_date)
           s == IF start_date # None THEN parse_date(start_date) ELSE Returned(0)
           e == IF end_date # None THEN parse_date(end_date) ELSE Returned(0)
       IN  /\ inv' = clean_param(request_data.inv)
           /\ IF ~s.ok
              THEN /\ response' = InvalidDate(start_date.s)
                   /\ pc' = "done"
                   /\ UNCHANGED <<start_dt, end_dt>>
              ELSE IF ~e.ok
              THEN /\ response' = InvalidDate(end_date.s)
                   /\ pc' = "done"
                   /\ start_dt' = (IF start_date # None THEN Date(s.dt) ELSE NoDate)
                   /\ UNCHANGED end_dt
              ELSE /\ start_dt' = (IF start_date # None THEN Date(s.dt) ELSE NoDate)
                   /\ end_dt' = (IF end_date # None THEN Date(e.dt) ELSE NoDate)
                   /\ IF start_date # None /\ end_date # None /\ s.dt > e.dt
                      THEN response' = StartAfterEnd /\ pc' = "done"
                      ELSE pc' = "fetch" /\ UNCHANGED response
    /\ UNCHANGED <<request_data, upstream, now, financial_data, fetches, reads>>

\* lines 55-59: one GET to the data source, answered with the whole ledger
FetchOk ==
    /\ pc = "fetch"
    /\ fetches' = fetches + 1
    /\ financial_data' = upstream
    /\ pc' = "process"
    /\ UNCHANGED <<request_data, upstream, now, inv, start_dt, end_dt, response, reads>>

\* lines 60-64: the GET fails (network failure, timeout, non-2xx)
FetchFailed ==
    /\ pc = "fetch"
    /\ fetches' = fetches + 1
    /\ response' = Unavailable
    /\ pc' = "done"
    /\ UNCHANGED <<request_data, upstream, now, inv, start_dt, end_dt, financial_data, reads>>

\* int() of a run of digits
RECURSIVE DigitRun(_)
DigitRun(s) == IF s = <<>> THEN 0 ELSE DigitRun(SubSeq(s, 1, Len(s) - 1)) * 10 + DigitVal(s[Len(s)])

\* float(x or 0), for integral amounts: a number, or signed digits in blanks;
\* any other text raises ValueError
PyFloat(x) ==
    LET v == Or(x, Num(0))
        s == strip(v.s)
        signed == s # <<>> /\ Head(s) \in {"-", "+"}
        d == IF signed THEN Tail(s) ELSE s
    IN  IF v.t = "num" THEN Returned(v.n)
        ELSE IF d = <<>> \/ \E i \in 1..Len(d) : ~IsDigit(d[i]) THEN Raised("ValueError")
        ELSE Returned(IF signed /\ Head(s) = "-" THEN 0 - DigitRun(d) ELSE DigitRun(d))

\* the amount taken with its sign
abs_signed(n) == n

abs(n) == IF n < 0 THEN 0 - n ELSE n

\* abs(float(row.get("Amount in Doc. Curr.") or 0))
AbsAmount(row) == abs(PyFloat(Get(row, "Amount in Doc. Curr.")).dt)
AmountRaises(row) == ~PyFloat(Get(row, "Amount in Doc. Curr.")).ok

RECURSIVE SumSeq(_)
SumSeq(s) == IF s = <<>> THEN 0 ELSE Head(s) + SumSeq(Tail(s))

IsType(row, doc_type) == normalize(Get(row, "Document type")) = doc_type
\* sum(abs(float(...)) for r in rows if normalize(r.get("Document type")) == doc_type)
TypeAmount(rows, doc_type) ==
    LET of_type == SelectSeq(rows, LAMBDA r : IsType(r, doc_type))
    IN  SumSeq([i \in 1..Len(of_type) |-> AbsAmount(of_type[i])])

\* the clock read by the i-th call of a run whose clock ticks after the k-th call
ClockAt(k, i) == IF i <= k THEN now ELSE now + 1

\* the rows of the account and invoice, of any document type
InvoiceRowsOfAnyType(data, account, i) ==
    SelectSeq(data, LAMBDA row :
        /\ Get(row, "Account") = Num(account)
        /\ normalize(Get(row, "Reference key 3")) = i)

\* lines 70-75: the rows of the account and invoice, of type IL or SP
InvoiceRows(data, account, i) ==
    SelectSeq(data, LAMBDA row :
        /\ Get(row, "Account") = Num(account)
        /\ normalize(Get(row, "Reference key 3")) = i
        /\ normalize(Get(row, "Document type")) \in {IL, SP})

\* lines 84-96: the record of one row
RowRecord(row, i, c) ==
    [k \in {"Supplier Name", "Supplier SECS", "Vendor Code", "Invoice Number", "Invoice Date",
            "Payment Due Date", "Document Type", "Amount", "Currency", "Remark", "Status"} |->
        CASE k = "Supplier Name" -> PyStr(Or(Get(row, "Vendor name"), Str(<<>>)))
          [] k = "Supplier SECS" -> Or(Get(row, "Account"), Str(<<>>))
          [] k = "Vendor Code" -> PyStr(Or(Get(row, "Vendor"), Str(<<>>)))
          [] k = "Invoice Number" -> i
          [] k = "Invoice Date" -> PyStr(Or(Get(row, "Entry Date"), Str(<<>>)))
          [] k = "Payment Due Date" -> PyStr(Or(Get(row, "Payment Date"), Str(<<>>)))
          [] k = "Document Type" -> normalize(Get(row, "Document type"))
          [] k = "Amount" -> AbsAmount(row)
          [] k = "Currency" -> PyStr(Or(Get(row, "Document Currency"), Str(<<>>)))
          [] k = "Remark" -> c.remark
          [] k = "Status" -> c.status]

\* every record given the classification of the first matching row
InvoicesOutAOfFirstRow(invoice_rows, i, k) ==
    [j \in 1..Len(invoice_rows) |->
        RowRecord(invoice_rows[j], i, get_remark_and_status(invoice_rows[1], ClockAt(k, 1)))]

\* lines 82-96: one record per matching row, each classified by its own row;
\* the clock ticks after the k-th classifier call
InvoicesOutA(invoice_rows, i, k) ==
    [j \in 1..Len(invoice_rows) |->
        RowRecord(invoice_rows[j], i, get_remark_and_status(invoice_rows[j], ClockAt(k, j)))]

\* lines 98-120: the summary, decided by the status of the first matching row
SummaryA(invoice_rows, k) ==
    LET il_amount == TypeAmount(invoice_rows, IL)
        sp_amount == TypeAmount(invoice_rows, SP)
        currency == Or(Get(invoice_rows[1], "Document Currency"), Str(<<>>))
        status_first ==
            get_remark_and_status(invoice_rows[1], ClockAt(k, Len(invoice_rows) + 1)).status
        paid == status_first = "Paid"
    IN  [key \in {"Amount Paid", "Amount Due", "Currency"} |->
            CASE key = "Amount Paid" -> IF paid THEN il_amount ELSE 0
              [] key = "Amount Due" -> IF paid THEN 0 ELSE il_amount - sp_amount
              [] key = "Currency" -> currency]

Media == IF request_data.format = "md" THEN TEXT ELSE JSON

\* lines 69-129: a specific invoice
SpecificInvoice ==
    /\ pc = "process"
    /\ inv # None
    /\ LET invoice_rows == InvoiceRows(financial_data, request_data.account, inv.s)
           calls == Len(invoice_rows) + 1
       IN  IF invoice_rows = <<>>
           THEN /\ response' = UnderProcessReply(Media, inv.s)
                /\ UNCHANGED <<now, reads>>
           ELSE IF \E j \in 1..Len(invoice_rows) : AmountRaises(invoice_rows[j])
           THEN /\ response' = InternalError
                /\ UNCHANGED <<now, reads>>
           ELSE \E k \in 0..calls :
                /\ response' = Records(Media, InvoicesOutA(invoice_rows, inv.s, k),
                                       SummaryA(invoice_rows, k))
                /\ reads' = [j \in 1..calls |-> ClockAt(k, j)]
                /\ now' = ClockAt(k, calls)
    /\ pc' = "done"
    /\ UNCHANGED <<request_data, upstream, inv, start_dt, end_dt, financial_data, fetches>>

\* lines 135-152: what the loop does with one row: "skip" it, "keep" it, or "raise"
\* the TypeError of parse_date, which the except HTTPException clause lets through
RowFate(row, account, s_dt, e_dt) ==
    LET invoice_date_str == Get(row, "Entry Date")
        invoice_dt == parse_date(invoice_date_str)
    IN  IF Get(row, "Account") # Num(account) THEN "skip"
        ELSE IF normalize(Get(row, "Document type")) \notin {IL, SP} THEN "skip"
        ELSE IF ~Truthy(invoice_date_str) THEN "skip"
        ELSE IF ~invoice_dt.ok
        THEN (IF invoice_dt.exc = "HTTPException" THEN "skip" ELSE "raise")
        ELSE IF s_dt.some /\ invoice_dt.dt < s_dt.dt THEN "skip"
        ELSE IF e_dt.some /\ invoice_dt.dt > e_dt.dt THEN "skip"
        ELSE IF normalize(Get(row, "Reference key 3")) = <<>> THEN "skip"
        ELSE "keep"

\* a list that takes a new item for every row
AppendAlways(account_invoices, inv_no, row) ==
    Append(account_invoices, [inv_no |-> inv_no, rows |-> <<row>>])

\* account_invoices.setdefault(inv_no, []).append(row): an insertion-ordered mapping,
\* kept as the sequence of its (inv_no, rows) items
SetDefaultAppend(account_invoices, inv_no, row) ==
    IF \E g \in 1..Len(account_invoices) : account_invoices[g].inv_no = inv_no
    THEN [g \in 1..Len(account_invoices) |->
            IF account_invoices[g].inv_no = inv_no
            THEN [inv_no |-> inv_no, rows |-> Append(account_invoices[g].rows, row)]
            ELSE account_invoices[g]]
    ELSE Append(account_invoices, [inv_no |-> inv_no, rows |-> <<row>>])

\* lines 133-153: the rows of the account grouped by invoice number, in ledger order
RECURSIVE AccountInvoices(_, _, _, _, _)
AccountInvoices(data, account, s_dt, e_dt, account_invoices) ==
    IF data = <<>> THEN account_invoices
    ELSE AccountInvoices(Tail(data), account, s_dt, e_dt,
            IF RowFate(Head(data), account, s_dt, e_dt) = "keep"
            THEN SetDefaultAppend(account_invoices,
                                  normalize(Get(Head(data), "Reference key 3")), Head(data))
            ELSE account_invoices)

\* the net amount with the SP total taken off whatever the status
NetAmountLessSP(rows, status) == TypeAmount(rows, IL) - TypeAmount(rows, SP)

\* lines 156-164: the net amount of a group, by the status of its first row
NetAmount(rows, status) ==
    IF status = "Paid" THEN TypeAmount(rows, IL) ELSE TypeAmount(rows, IL) - TypeAmount(rows, SP)

\* lines 166-178: the record of one group, built from its first row
GroupRecord(group, c) ==
    [RowRecord(group.rows[1], group.inv_no, c) EXCEPT
        !["Document Type"] = "Aggregated",
        !["Amount"] = NetAmount(group.rows, c.status)]

\* every group classified by its last row
InvoicesOutBOfLastRow(account_invoices, k) ==
    [g \in 1..Len(account_invoices) |->
        GroupRecord(account_invoices[g],
                    get_remark_and_status(account_invoices[g].rows[Len(account_invoices[g].rows)],
                                          ClockAt(k, g)))]

\* lines 155-178: one record per group; the clock ticks after the k-th classifier call
InvoicesOutB(account_invoices, k) ==
    [g \in 1..Len(account_invoices) |->
        GroupRecord(account_invoices[g],
                    get_remark_and_status(account_invoices[g].rows[1], ClockAt(k, g)))]

\* lines 179-199: the account-level summary; the two totals classify the first row
\* of every group again
SummaryB(account_invoices, invoices_out, k) ==
    LET n == Len(account_invoices)
        statuses(key) == SelectSeq(invoices_out, LAMBDA i : i["Status"] = key)
        due_status(g) == get_remark_and_status(account_invoices[g].rows[1], ClockAt(k, n + g)).status
        paid_status(g) == get_remark_and_status(account_invoices[g].rows[1], ClockAt(k, 2 * n + g)).status
    IN  [key \in {"invoice_count", "due_count", "paid_count", "total_due_amount", "total_paid_amount"} |->
            CASE key = "invoice_count" -> Len(invoices_out)
              [] key = "due_count" -> Len(statuses("Due"))
              [] key = "paid_count" -> Len(statuses("Paid"))
              [] key = "total_due_amount" ->
                    SumSeq([g \in 1..n |->
                        IF due_status(g) = "Due"
                        THEN TypeAmount(account_invoices[g].rows, IL)
                                - TypeAmount(account_invoices[g].rows, SP)
                        ELSE 0])
              [] key = "total_paid_amount" ->
                    SumSeq([g \in 1..n |->
                        IF paid_status(g) = "Paid"
                        THEN TypeAmount(account_invoices[g].rows, IL)
                        ELSE 0])]

\* lines 131-208: all invoices of the account
AllInvoices ==
    /\ pc = "process"
    /\ inv = None
    /\ LET account_invoices ==
               AccountInvoices(financial_data, request_data.account, start_dt, end_dt, <<>>)
           calls == 3 * Len(account_invoices)
           \* the loop stops at the first row whose Entry Date is no str
           type_error == \E j \in 1..Len(financial_data) :
               RowFate(financial_data[j], request_data.account, start_dt, end_dt) = "raise"
           value_error == \E g \in 1..Len(account_invoices) :
               \E j \in 1..Len(account_invoices[g].rows) : AmountRaises(account_invoices[g].rows[j])
       IN  IF type_error \/ value_error
           THEN /\ response' = InternalError
                /\ UNCHANGED <<now, reads>>
           ELSE \E k \in 0..calls :
                /\ response' = Records(Media, InvoicesOutB(account_invoices, k),
                                       SummaryB(account_invoices, InvoicesOutB(account_invoices, k), k))
                /\ reads' = [j \in 1..calls |-> ClockAt(k, j)]
                /\ now' = ClockAt(k, calls)
    /\ pc' = "done"
    /\ UNCHANGED <<request_data, upstream, inv, start_dt, end_dt, financial_data, fetches>>

Next == Validate \/ FetchOk \/ FetchFailed \/ SpecificInvoice \/ AllInvoices

---------------------------------------------------------------------------
(* Ledgers, requests and clocks the runs start from *)

Pad2(n) == <<Digits[(n \div 10) + 1], Digits[(n % 10) + 1]>>
\* the text YYYY-MM-DD of a date
IsoDate(y, m, d) == NatStr(y) \o <<"-">> \o Pad2(m) \o <<"-">> \o Pad2(d)

\* midnight of 2024-03-02: the days before it cross the leap day
Today == ToOrdinal(2024, 3, 2) * TicksPerDay
\* the instants of that day the clock is started at
Clocks == {Today + i : i \in 0..(TicksPerDay - 1)}
\* the text of the date a days before Today
DaysAgo(a) ==
    LET ymd == CHOOSE x \in {2024} \X {2, 3} \X (1..31) :
                   /\ x[3] <= DaysInMonth(x[1], x[2])
                   /\ ToOrdinal(x[1], x[2], x[3]) * TicksPerDay = Today - a * TicksPerDay
    IN  IsoDate(ymd[1], ymd[2], ymd[3])

Keys == {"Account", "Reference key 3", "Document type", "Entry Date", "Payment Date",
         "Vendor name", "Vendor", "Amount in Doc. Curr.", "Document Currency",
         "Clearing Document", "Vendor Clearing document no", "BP clearing Date", "Clearing Date"}

Clearing(cd, vcd, bp, cdate) == [cd |-> cd, vcd |-> vcd, bp |-> bp, cdate |-> cdate]
NotCleared == Clearing(None, None, None, None)
SentToAPOn(date) == Clearing(Num(5100), None, None, Str(date))
ClearedOn(date) == Clearing(Num(5100), Str(<<"K", "7">>), Str(date), Str(date))

\* a ledger row as the data source sends it
Row(account, ref, doc_type, entry, amount, currency, clearing) ==
    [key \in Keys |->
        CASE key = "Account" -> account
          [] key = "Reference key 3" -> ref
          [] key = "Document type" -> doc_type
          [] key = "Entry Date" -> entry
          [] key = "Payment Date" -> Str(IsoDate(2024, 3, 31))
          [] key = "Vendor name" -> Str(<<"A", "c", "m", "e">>)
          [] key = "Vendor" -> Num(7001)
          [] key = "Amount in Doc. Curr." -> amount
          [] key = "Document Currency" -> currency
          [] key = "Clearing Document" -> clearing.cd
          [] key = "Vendor Clearing document no" -> clearing.vcd
          [] key = "BP clearing Date" -> clearing.bp
          [] key = "Clearing Date" -> clearing.cdate]

\* every ledger of at most MaxRows rows drawn from rows
Ledgers(rows) == UNION {[1..n -> rows] : n \in 0..MaxRows}

Request(account, i, start_date, end_date, format) ==
    [account |-> account, inv |-> i, start_date |-> start_date, end_date |-> end_date,
     format |-> format]

USD == Str(<<"U", "S", "D">>)
EUR == Str(<<"E", "U", "R">>)
INV1 == <<"I", "N", "V", "1">>
INV2 == <<"I", "N", "V", "2">>
Minus500 == Str(<<"-", "5", "0", "0">>)

HandlerInit(requests, ledgers) ==
    /\ request_data \in requests
    /\ upstream \in ledgers
    /\ now = Today
    /\ pc = "validate"
    /\ inv = None
    /\ start_dt = NoDate
    /\ end_dt = NoDate
    /\ financial_data = <<>>
    /\ fetches = 0
    /\ response = None
    /\ reads = <<>>

(* Requests with every kind of date parameter, over short ledgers *)
DateParams ==
    {None, Str(<<"N", "o", "n", "e">>), Str(<<" ">>),
     Str(IsoDate(2024, 1, 1)), Str(<<" ">> \o IsoDate(2024, 6, 1) \o <<" ">>),
     Str(IsoDate(2024, 6, 1)), Str(<<"2", "0", "2", "4", "-", "6", "-", "2">>),
     Str(IsoDate(2024, 13, 1)), Str(IsoDate(2023, 2, 29)),
     Str(<<"0", "1", "/", "0", "6", "/", "2", "0", "2", "4">>)}
RowsReq ==
    {Row(Num(1), Str(INV1), Str(IL), Str(IsoDate(2024, 3, 1)), Minus500, USD, NotCleared),
     Row(Num(1), Str(INV2), Str(IL), Str(IsoDate(2024, 6, 2)), Num(300), USD, ClearedOn(DaysAgo(3)))}
RequestsReq ==
    {Request(1, i, s, e, "json") : i \in {None, Str(INV1)}, s \in DateParams, e \in DateParams}
Init == HandlerInit(RequestsReq, Ledgers(RowsReq))
Spec == Init /\ [][Next]_vars

(* Single-invoice requests over ledgers whose rows differ in type, amount and clearing *)
RowsA ==
    {Row(Num(1), Str(INV1), Str(IL), None, Minus500, USD, NotCleared),
     Row(Num(1), Str(INV1), Str(SP), None, Minus500, USD, NotCleared),
     Row(Num(1), Str(<<" ">> \o INV1 \o <<" ">>), Str(IL), None, Num(300), EUR, ClearedOn(DaysAgo(4))),
     Row(Num(1), Str(INV1), Str(<<" ">> \o SP), None, Num(-200), None, ClearedOn(<<"s", "o", "o", "n">>)),
     Row(Num(1), Str(INV1), Str(IL), None, None, USD, SentToAPOn(DaysAgo(1))),
     Row(Num(1), Str(INV2), Str(IL), None, Num(300), USD, NotCleared),
     Row(Num(2), Str(INV1), Str(IL), None, Num(300), USD, ClearedOn(DaysAgo(1))),
     Row(Num(1), Str(INV1), Str(<<"K", "R">>), None, Num(300), USD, ClearedOn(DaysAgo(1)))}
RequestsA ==
    {Request(1, None, None, None, "json"), Request(1, Str(INV1), None, None, "json"),
     Request(1, Str(INV1), None, None, "md"),
     Request(1, Str(<<" ">> \o INV1 \o <<"\n">>), None, None, "json")}
InitA == HandlerInit(RequestsA, Ledgers(RowsA))
SpecA == InitA /\ [][Next]_vars

(* All-invoices requests over ledgers whose rows differ in type, amount and clearing *)
RowsB ==
    {Row(Num(1), Str(INV1), Str(IL), Str(IsoDate(2024, 3, 1)), Minus500, USD, NotCleared),
     Row(Num(1), Str(INV1), Str(SP), Str(IsoDate(2024, 3, 2)), Num(200), USD, ClearedOn(DaysAgo(1))),
     Row(Num(1), Str(INV1), Str(IL), None, Num(300), USD, ClearedOn(DaysAgo(4))),
     Row(Num(1), Str(INV2 \o <<" ">>), Str(IL), Str(IsoDate(2024, 2, 29)), Num(300), EUR, ClearedOn(DaysAgo(4))),
     Row(Num(1), Str(INV2), Str(SP), Str(IsoDate(2024, 3, 1)), Num(-100), EUR, ClearedOn(DaysAgo(9))),
     Row(Num(1), Str(INV2), Str(IL), Str(IsoDate(2024, 3, 1)), None, None, SentToAPOn(DaysAgo(1)))}
RequestsB ==
    {Request(1, None, None, None, "json"), Request(1, None, Str(IsoDate(2024, 3, 1)), None, "json"),
     Request(1, None, None, Str(IsoDate(2024, 3, 1)), "md"),
     Request(1, Str(INV1), None, None, "json")}
InitB == HandlerInit(RequestsB, Ledgers(RowsB))
SpecB == InitB /\ [][Next]_vars

(* All-invoices requests over ledgers whose rows differ in what the filter reads *)
SlashDate == <<"0", "1", "/", "0", "3", "/", "2", "0", "2", "4">>
RowsF ==
    {Row(Num(1), Str(INV1), Str(IL), Str(IsoDate(2024, 3, 1)), Minus500, USD, NotCleared),
     Row(Num(1), Str(INV2), Str(<<" ">> \o SP), Str(IsoDate(2024, 2, 29)), Num(200), USD, NotCleared),
     Row(Num(1), Str(<<" ">> \o INV1), Str(SP), Str(IsoDate(2024, 3, 2)), Num(200), USD, NotCleared),
     Row(Num(1), Str(INV1), Str(IL), Str(SlashDate), Num(300), USD, NotCleared),
     Row(Num(1), Str(INV2), Str(IL), Num(20240301), Num(300), USD, NotCleared),
     Row(Num(1), Str(<<" ">>), Str(IL), Str(IsoDate(2024, 3, 1)), Num(300), USD, NotCleared),
     Row(Num(2), Str(INV1), Str(IL), Str(IsoDate(2024, 3, 1)), Num(300), USD, NotCleared),
     Row(Num(1), Str(INV1), Str(<<"K", "R">>), Str(IsoDate(2024, 3, 1)), Num(300), USD, NotCleared)}
RequestsF ==
    {Request(1, None, s, e, "json") :
        s \in {None, Str(IsoDate(2024, 3, 1))}, e \in {None, Str(IsoDate(2024, 3, 1))}}
        \cup {Request(1, Str(INV1), None, None, "json")}
InitF == HandlerInit(RequestsF, Ledgers(RowsF))
SpecF == InitF /\ [][Next]_vars

(* The classifier alone, over every pattern of its five fields *)
RefValues == {None, Str(<<>>), Str(<<" ">>), Str(INV1), Num(0)}
DocValues == {None, Str(<<"\t">>), Num(5100)}
DateValues ==
    {None, Str(<<>>), Num(20240301), Str(<<"s", "o", "o", "n">>), Str(IsoDate(2023, 2, 29)),
     Str(<<" ">> \o DaysAgo(4) \o <<" ">>)}
        \cup {Str(DaysAgo(a)) : a \in (0 - 1)..MaxAgeDays}
ClassifierRows ==
    {Row(Num(1), ref, Str(IL), None, Num(300), USD, Clearing(cd, vcd, bp, cdate)) :
        ref \in RefValues, cd \in DocValues, vcd \in DocValues, bp \in DateValues,
        cdate \in {None, Str(DaysAgo(4))}}

InitClassify ==
    /\ upstream \in {<<row>> : row \in ClassifierRows}
    /\ now \in Clocks
    /\ pc = "classify"
    /\ request_data = Request(1, None, None, None, "json")
    /\ inv = None
    /\ start_dt = NoDate
    /\ end_dt = NoDate
    /\ financial_data = <<>>
    /\ fetches = 0
    /\ response = None
    /\ reads = <<>>

\* one call of get_remark_and_status on the row, reading the clock
Classify ==
    /\ pc = "classify"
    /\ response' = get_remark_and_status(upstream[1], now)
    /\ reads' = <<now>>
    /\ pc' = "done"
    /\ UNCHANGED <<request_data, upstream, now, inv, start_dt, end_dt, financial_data, fetches>>

NextClassify == Classify
SpecClassify == InitClassify /\ [][NextClassify]_vars

---------------------------------------------------------------------------
(* The classifier's contract *)

\* a field is present when its text holds a character that is not whitespace
Present(v) == v # None /\ \E i \in 1..Len(PyStr(v)) : PyStr(v)[i] \notin Whitespace
FiveFields == {"Reference key 3", "Clearing Document", "Clearing Date",
               "Vendor Clearing document no", "BP clearing Date"}
AllFivePresent(row) == \A key \in FiveFields : Present(Get(row, key))
\* the text of a field, trimmed
Trimmed(v) == IF Present(v) THEN strip(PyStr(v)) ELSE <<>>

\* C3: the classifier answers every row with a status Due or Paid, and the status is
\* Paid exactly when reference, clearing document, clearing date, vendor clearing
\* document number and BP clearing date are all non-empty after trimming, whether or
\* not the BP clearing date parses
C3_PaidIffAllFivePresent ==
    pc = "done" =>
        /\ response.status \in {"Due", "Paid"}
        /\ response.remark.text \in {UnderProcess, Booked, SentToAP, PaidSoon, PaidOn, NoRule}
        /\ (response.status = "Paid") <=> AllFivePresent(upstream[1])

\* a row with all five fields whose BP clearing date is no date has been classified Paid
C3_Witness ==
    /\ pc = "done"
    /\ AllFivePresent(upstream[1])
    /\ upstream[1]["BP clearing Date"] = Str(<<"s", "o", "o", "n">>)
    /\ response.status = "Paid"

\* the BP clearing dates of the classifier runs that are dates, by their age in days
AgesTried == (0 - 1)..MaxAgeDays
IsAged(row, a) == Trimmed(row["BP clearing Date"]) = DaysAgo(a)

\* C10: for a row with all five fields, the remark has the clause "within 2 working
\* days" exactly when the BP clearing date is a date and at most 4 days lie between its
\* midnight and the clock; a BP clearing date that is no date gives the remark without
\* the clause, quoting the text as it stands; the status is Paid in all three cases
C10_ClauseIffWithinFourDays ==
    (pc = "done" /\ AllFivePresent(upstream[1])) =>
        LET row == upstream[1]
            clock == reads[1]
        IN  /\ response.status = "Paid"
            /\ response.remark.ref_key = Trimmed(row["Reference key 3"])
            /\ response.remark.bp = Trimmed(row["BP clearing Date"])
            /\ \A a \in AgesTried :
                   IsAged(row, a) =>
                       response.remark.text =
                           (IF clock - (Today - a * TicksPerDay) <= 4 * TicksPerDay
                            THEN PaidSoon ELSE PaidOn)
            /\ (\A a \in AgesTried : ~IsAged(row, a)) => response.remark.text = PaidOn

\* a payment cleared exactly four days before the clock reading carries the clause
C10_Witness ==
    /\ pc = "done"
    /\ AllFivePresent(upstream[1])
    /\ IsAged(upstream[1], 4)
    /\ reads[1] = Today
    /\ response.remark.text = PaidSoon

---------------------------------------------------------------------------
(* Validation before the fetch *)

\* the date parameters of the requests, by what they are: absent, a date (with its
\* place in the calendar order), or text that is no date
AbsentParams == {None, Str(<<"N", "o", "n", "e">>), Str(<<" ">>)}
CalendarOrder ==
    <<{Str(IsoDate(2024, 1, 1))},
      {Str(IsoDate(2024, 6, 1)), Str(<<" ">> \o IsoDate(2024, 6, 1) \o <<" ">>)},
      {Str(<<"2", "0", "2", "4", "-", "6", "-", "2">>)}>>
IsDateParam(param) == \E i \in 1..Len(CalendarOrder) : param \in CalendarOrder[i]
Place(param) == CHOOSE i \in 1..Len(CalendarOrder) : param \in CalendarOrder[i]
Malformed(param) == param \notin AbsentParams /\ ~IsDateParam(param)
StartsAfterEnd(r) ==
    /\ IsDateParam(r.start_date)
    /\ IsDateParam(r.end_date)
    /\ Place(r.start_date) > Place(r.end_date)
CallerError(r) == Malformed(r.start_date) \/ Malformed(r.end_date) \/ StartsAfterEnd(r)

\* C4: a request whose start date is after its end date, or one of whose supplied
\* dates is no YYYY-MM-DD date, never reaches the upstream data source, and ends
\* with status 400; every other request goes on to the fetch
C4_CallerErrorBeforeFetch ==
    /\ CallerError(request_data) =>
           /\ fetches = 0
           /\ pc \in {"validate", "done"}
           /\ pc = "done" => response.status_code = 400
    /\ (~CallerError(request_data) /\ pc = "done") => (fetches = 1 /\ response.status_code # 400)

\* a request with both dates well formed and the start after the end has been rejected
C4_Witness ==
    /\ pc = "done"
    /\ StartsAfterEnd(request_data)
    /\ upstream # <<>>
    /\ response = StartAfterEnd
    /\ fetches = 0

---------------------------------------------------------------------------
(* A specific invoice *)

\* the request was answered from the ledger: validation passed and the fetch succeeded
Answered == pc = "done" /\ fetches = 1 /\ response # Unavailable
HasRecords == Answered /\ "invoices" \in DOMAIN response.body
\* the invoice number asked for, trimmed
AskedInvoice == Trimmed(request_data.inv)
SingleInvoice == request_data.inv # None /\ AskedInvoice # <<>>
\* the ledger rows of the requested account and invoice number whose type is IL or SP,
\* as the positions they have in the ledger
IsMatch(row) ==
    /\ row["Account"] = Num(request_data.account)
    /\ Trimmed(row["Reference key 3"]) = AskedInvoice
    /\ Trimmed(row["Document type"]) \in {IL, SP}
Matching == {p \in 1..Len(financial_data) : IsMatch(financial_data[p])}
\* the p-th smallest member of a set of positions
RECURSIVE Nth(_, _)
Nth(S, p) ==
    LET least == CHOOSE x \in S : \A y \in S : x <= y
    IN  IF p = 1 THEN least ELSE Nth(S \ {least}, p - 1)
MatchingRow(p) == financial_data[Nth(Matching, p)]
\* the size of an amount: text or number, nothing counts as zero
Magnitude(row) ==
    LET v == row["Amount in Doc. Curr."]
        digits == SelectSeq(PyStr(v), IsDigit)
    IN  IF v = None THEN 0
        ELSE IF v.t = "num" THEN (IF v.n < 0 THEN 0 - v.n ELSE v.n)
        ELSE DigitRun(digits)
\* the total size of the amounts of the rows at positions S that have the type
RECURSIVE Total(_, _, _)
Total(data, S, doc_type) ==
    IF S = {} THEN 0
    ELSE LET p == CHOOSE x \in S : TRUE
         IN  (IF Trimmed(data[p]["Document type"]) = doc_type THEN Magnitude(data[p]) ELSE 0)
                 + Total(data, S \ {p}, doc_type)

C7_SummaryByFirstRow ==
    (HasRecords /\ SingleInvoice) =>
        LET summary == response.body.summary
            il_total == Total(financial_data, Matching, IL)
            sp_total == Total(financial_data, Matching, SP)
            first == MatchingRow(1)
        IN  /\ summary["Amount Paid"] = (IF AllFivePresent(first) THEN il_total ELSE 0)
            /\ summary["Amount Due"] = (IF AllFivePresent(first) THEN 0 ELSE il_total - sp_total)
            /\ summary["Currency"] =
                   (IF Present(first["Document Currency"]) THEN first["Document Currency"]
                    ELSE Str(<<>>))

\* an IL row of -500 followed by an SP row of -500, both unpaid: Amount Due is 0
C7_Witness ==
    /\ HasRecords
    /\ SingleInvoice
    /\ Cardinality(Matching) = 2
    /\ MatchingRow(1)["Document type"] = Str(IL)
    /\ MatchingRow(2)["Document type"] = Str(SP)
    /\ MatchingRow(1)["Amount in Doc. Curr."] = Minus500
    /\ MatchingRow(2)["Amount in Doc. Curr."] = Minus500
    /\ response.body.summary["Amount Due"] = 0
    /\ response.body.summary["Amount Paid"] = 0

---------------------------------------------------------------------------
(* All invoices of an account *)

AllOfAccount == request_data.inv = None
\* text of the shape YYYY-MM-DD, every part at its full width; such texts are in
\* calendar order when in dictionary order
IsIsoText(s) ==
    /\ Len(s) = 10
    /\ \A i \in {1, 2, 3, 4, 6, 7, 9, 10} : IsDigit(s[i])
    /\ s[5] = "-" /\ s[8] = "-"
RECURSIVE Before(_, _)
Before(s, u) ==
    /\ s # <<>> /\ u # <<>>
    /\ IF Head(s) = Head(u) THEN Before(Tail(s), Tail(u))
       ELSE IsDigit(Head(s)) /\ IsDigit(Head(u)) /\ DigitVal(Head(s)) < DigitVal(Head(u))
\* the row is one the claim says contributes to a group
Contributes(row) ==
    /\ row["Account"] = Num(request_data.account)
    /\ Trimmed(row["Document type"]) \in {IL, SP}
    /\ row["Entry Date"].t = "str"
    /\ IsIsoText(row["Entry Date"].s)
    /\ request_data.start_date # None =>
           ~Before(row["Entry Date"].s, Trimmed(request_data.start_date))
    /\ request_data.end_date # None =>
           ~Before(Trimmed(request_data.end_date), row["Entry Date"].s)
    /\ Trimmed(row["Reference key 3"]) # <<>>
Number(p) == Trimmed(financial_data[p]["Reference key 3"])
Kept == {p \in 1..Len(financial_data) : Contributes(financial_data[p])}
\* the contributing rows that are the first of their invoice number
FirstSeen == {p \in Kept : \A q \in Kept : q < p => Number(q) # Number(p)}
GroupOf(number) == {p \in Kept : Number(p) = number}
\* the rows at the positions S, in ledger order
RowsAt(S) == [p \in 1..Cardinality(S) |-> financial_data[Nth(S, p)]]
\* the position of the first row of the group the g-th record stands for
FirstOf(g) == Nth(FirstSeen, g)
PaidGroup(g) == AllFivePresent(financial_data[FirstOf(g)])
ILTotal(g) == Total(financial_data, GroupOf(Number(FirstOf(g))), IL)
SPTotal(g) == Total(financial_data, GroupOf(Number(FirstOf(g))), SP)
\* the sum of f over S
RECURSIVE SumOver(_, _)
SumOver(S, f) ==
    IF S = {} THEN 0 ELSE LET x == CHOOSE y \in S : TRUE IN f[x] + SumOver(S \ {x}, f)

\* C9 as stated: a row contributes to a group exactly when it is of the account, of type
\* IL or SP, has an Entry Date that is a date within the filters, and has an invoice
\* number; every other row is skipped and the request is answered all the same, with one
\* record per invoice number among the contributing rows, in first-seen order
C9_ContributingRowsAndOrder ==
    (Answered /\ AllOfAccount) =>
        LET groups == AccountInvoices(financial_data, request_data.account, start_dt, end_dt, <<>>)
        IN  /\ Len(groups) = Cardinality(FirstSeen)
            /\ \A g \in 1..Len(groups) :
                   /\ groups[g].inv_no = Number(FirstOf(g))
                   /\ groups[g].rows = RowsAt(GroupOf(Number(FirstOf(g))))
                   /\ groups[g].rows # <<>>
            /\ response.status_code = 200
            /\ "invoices" \in DOMAIN response.body
            /\ Len(response.body.invoices) = Cardinality(FirstSeen)
            /\ \A g \in 1..Cardinality(FirstSeen) :
                   response.body.invoices[g]["Invoice Number"] = Number(FirstOf(g))

\* C9 for ledgers whose Entry Dates are all text or missing: there the statement holds
C9_HoldsWhenEntryDatesAreText ==
    (\A p \in 1..Len(financial_data) : financial_data[p]["Entry Date"].t # "num")
        => C9_ContributingRowsAndOrder

\* C2: the Amount of the record of a group goes by the status of the group's first row:
\* Paid gives the IL total of the group, Due the IL total less the SP total
C2_NetAmountByFirstRowStatus ==
    (HasRecords /\ AllOfAccount) =>
        /\ Len(response.body.invoices) = Cardinality(FirstSeen)
        /\ \A g \in 1..Len(response.body.invoices) :
               LET record == response.body.invoices[g]
               IN  /\ record["Invoice Number"] = Number(FirstOf(g))
                   /\ record["Status"] = (IF PaidGroup(g) THEN "Paid" ELSE "Due")
                   /\ record["Amount"] =
                          (IF PaidGroup(g) THEN ILTotal(g) ELSE ILTotal(g) - SPTotal(g))
                   /\ record["Document Type"] = "Aggregated"

\* a Paid group holding SP rows has its whole IL total as Amount
C2_Witness ==
    /\ HasRecords
    /\ AllOfAccount
    /\ \E g \in 1..Len(response.body.invoices) :
           /\ PaidGroup(g)
           /\ SPTotal(g) > 0
           /\ ILTotal(g) > 0
           /\ response.body.invoices[g]["Amount"] = ILTotal(g)

\* C6: the account summary agrees with the groups and with the records: invoice_count
\* is the number of groups, due_count and paid_count count the records by status and
\* add up to it, total_due_amount is the sum of IL less SP over the Due groups and
\* total_paid_amount the sum of IL over the Paid groups, each the sum of the Amounts
\* of the records of that status
C6_SummaryAgreesWithRecords ==
    (HasRecords /\ AllOfAccount) =>
        LET summary == response.body.summary
            invoices == response.body.invoices
            all == 1..Len(invoices)
            with(status) == {g \in all : invoices[g]["Status"] = status}
            amount == [g \in all |-> invoices[g]["Amount"]]
            due_net == [g \in all |-> ILTotal(g) - SPTotal(g)]
            il_total == [g \in all |-> ILTotal(g)]
        IN  /\ summary["invoice_count"] = Cardinality(FirstSeen)
            /\ summary["invoice_count"] = Len(invoices)
            /\ summary["due_count"] = Cardinality(with("Due"))
            /\ summary["paid_count"] = Cardinality(with("Paid"))
            /\ summary["due_count"] + summary["paid_count"] = summary["invoice_count"]
            /\ summary["total_due_amount"] = SumOver({g \in all : ~PaidGroup(g)}, due_net)
            /\ summary["total_paid_amount"] = SumOver({g \in all : PaidGroup(g)}, il_total)
            /\ summary["total_due_amount"] = SumOver(with("Due"), amount)
            /\ summary["total_paid_amount"] = SumOver(with("Paid"), amount)

\* a summary over one Due and one Paid group, both with money in them
C6_Witness ==
    /\ HasRecords
    /\ AllOfAccount
    /\ response.body.summary["due_count"] = 1
    /\ response.body.summary["paid_count"] = 1
    /\ response.body.summary["total_due_amount"] > 0
    /\ response.body.summary["total_paid_amount"] > 0
    /\ Len(financial_data) = MaxRows

\* what a single-invoice request for the number makes of the same ledger: the
\* classification of its first matching row, at the clock reading given
NoFilters == request_data.start_date = None /\ request_data.end_date = None
ModeARows(number) ==
    InvoiceRows(financial_data, request_data.account, clean_param(Str(number)).s)
ModeAClassification(number, clock) == get_remark_and_status(ModeARows(number)[1], clock)

\* C8 as stated: without date filters, the Status and Remark of every record of the
\* all-invoices answer are those a single-invoice request for the same number derives
\* from its first matching row
C8_ModesAgree ==
    (HasRecords /\ AllOfAccount /\ NoFilters) =>
        \A g \in 1..Len(response.body.invoices) :
            LET record == response.body.invoices[g]
                single == ModeAClassification(record["Invoice Number"], reads[g])
            IN  record["Status"] = single.status /\ record["Remark"] = single.remark

\* the Entry Date of the row is text that is a date
HasEntryDate(row) == row["Entry Date"].t = "str" /\ IsIsoText(row["Entry Date"].s)

\* C8 as the code has it: the two agree for every number whose first row matching the
\* single-invoice request has an Entry Date that is a date; a first row without one is
\* skipped by the all-invoices request, which classifies the group by a later row
C8_ModesAgreeWhenFirstRowIsDated ==
    (HasRecords /\ AllOfAccount /\ NoFilters) =>
        \A g \in 1..Len(response.body.invoices) :
            LET record == response.body.invoices[g]
                single == ModeAClassification(record["Invoice Number"], reads[g])
            IN  /\ ModeARows(record["Invoice Number"]) # <<>>
                /\ HasEntryDate(ModeARows(record["Invoice Number"])[1]) =>
                       (record["Status"] = single.status /\ record["Remark"] = single.remark)

\* a group of two dated rows, the first Due and the second Paid, answered as Due in
\* both modes
C8_Witness ==
    /\ HasRecords
    /\ AllOfAccount
    /\ NoFilters
    /\ Len(response.body.invoices) = 1
    /\ Cardinality(Kept) >= 2
    /\ HasEntryDate(ModeARows(response.body.invoices[1]["Invoice Number"])[1])
    /\ ~AllFivePresent(financial_data[Nth(Kept, 1)])
    /\ AllFivePresent(financial_data[Nth(Kept, 2)])
    /\ response.body.invoices[1]["Status"] = "Due"
    /\ ModeAClassification(response.body.invoices[1]["Invoice Number"], reads[1]).status = "Due"

====
